---- MODULE Spec2Model ----
(***************************************************************************)
(* A model of the lexer (src/src/lexer.ts), its Stack (src/src/utils.ts)   *)
(* and the BNF grammar compiler (src/src/parser.ts).                       *)
(*                                                                         *)
(* Strings are sequences of one-character strings; indices into them are   *)
(* zero-based as in the source (str[i] of the source is s[i + 1] here).    *)
(***************************************************************************)
EXTENDS Integers, Sequences, FiniteSets, TLC

(***************************************************************************)
(* Bounds of the model.                                                    *)
(***************************************************************************)
\* longest input string given to exec
MaxLen == 3
\* longest list of terminal classes given to the Lexer constructor
MaxTerminals == 2
\* longest grammar string given to bnf
MaxGrammarLen == 4

(***************************************************************************)
(* JavaScript values.                                                      *)
(***************************************************************************)
Undefined == "undefined"
CR == "\r"
LF == "\n"

Min(a, b) == IF a < b THEN a ELSE b

\* String.prototype.slice(from, to) for 0 <= from, 0 <= to
slice(s, from, to) == SubSeq(s, Min(from, Len(s)) + 1, Min(to, Len(s)))

\* String.prototype.startsWith(keyword, start) for 0 <= start
startsWith(s, keyword, start) ==
    /\ start + Len(keyword) <= Len(s)
    /\ \A i \in 1..Len(keyword) : s[start + i] = keyword[i]

(***************************************************************************)
(* Stack<T> of utils.ts: a doubly linked list with head, tail and leng.    *)
(* chain is the list of values reached from head by following next; the    *)
(* tail is its leng-th node.  pop of a stack of two or more moves tail     *)
(* back and leaves the old tail linked behind it.                          *)
(***************************************************************************)
NewStack == [chain |-> <<>>, leng |-> 0]

StackTop(stack) == IF stack.leng = 0 THEN Undefined ELSE stack.chain[stack.leng]

StackPush(stack, item) ==
    [chain |-> Append(SubSeq(stack.chain, 1, stack.leng), item),
     leng  |-> stack.leng + 1]

StackPop(stack) ==
    IF stack.leng = 0 THEN stack
    ELSE IF stack.leng = 1 THEN [chain |-> <<>>, leng |-> 0]
    ELSE [chain |-> stack.chain, leng |-> stack.leng - 1]

StackToArray(stack) == stack.chain

\* get length
StackLength(stack) == stack.leng

\* what pop returns
StackPopValue(stack) ==
    IF stack.leng = 0 THEN Undefined
    ELSE IF stack.leng = 1 THEN stack.chain[1]
    ELSE stack.chain[stack.leng]

\* the values reverse() yields: from tail by following prev
StackReverse(stack) == [k \in 1..stack.leng |-> stack.chain[stack.leng + 1 - k]]

\* new Stack(arr)
RECURSIVE StackFrom(_)
StackFrom(arr) ==
    IF arr = <<>> THEN NewStack
    ELSE StackPush(StackFrom(SubSeq(arr, 1, Len(arr) - 1)), arr[Len(arr)])

(***************************************************************************)
(* Spliter sources: a keyword string, a regular expression or a predicate. *)
(* A regular expression is [cls]{1}, [cls]+ or [cls]* with a set of flags; *)
(* a predicate answers start + table[c] when the character c at start is   *)
(* in its table, and null otherwise.                                       *)
(***************************************************************************)
Keyword(kw) ==
    [kind |-> "string", keyword |-> kw, cls |-> {}, rep |-> "", flags |-> {}, table |-> <<>>]
Reg(cls, rep, flags) ==
    [kind |-> "regexp", keyword |-> <<>>, cls |-> cls, rep |-> rep, flags |-> flags, table |-> <<>>]
Predicate(table) ==
    [kind |-> "function", keyword |-> <<>>, cls |-> {}, rep |-> "", flags |-> {}, table |-> table]

\* results of a SpliterHandler: a number, null, or a thrown SpliterHandlerError
Number(n) == [kind |-> "number", val |-> n]
NullResult == [kind |-> "null", val |-> 0]
Thrown == [kind |-> "throw", val |-> 0]

keywordHandler(keyword, s, start) ==
    IF startsWith(s, keyword, start) THEN Number(start + Len(keyword)) ELSE NullResult

\* length of the longest run of characters of cls in s from index i (zero-based)
RECURSIVE RunLength(_, _, _)
RunLength(cls, s, i) ==
    IF i < Len(s) /\ s[i + 1] \in cls THEN 1 + RunLength(cls, s, i + 1) ELSE 0

\* the match of the expression anchored at index i: <<text>>, or <<>> for none
MatchAt(reg, s, i) ==
    LET n == RunLength(reg.cls, s, i) IN
    CASE reg.rep = "one"  -> IF n >= 1 THEN << slice(s, i, i + 1) >> ELSE <<>>
      [] reg.rep = "plus" -> IF n >= 1 THEN << slice(s, i, i + n) >> ELSE <<>>
      [] reg.rep = "star" -> << slice(s, i, i + n) >>

\* the leftmost match of the expression at or after index i
RECURSIVE SearchFrom(_, _, _)
SearchFrom(reg, s, i) ==
    IF i > Len(s) THEN <<>>
    ELSE IF MatchAt(reg, s, i) # <<>> THEN MatchAt(reg, s, i)
    ELSE SearchFrom(reg, s, i + 1)

\* str.match(re)?.[0] given re.flags and re.lastIndex: a global expression
\* starts over from 0, a sticky one matches only at the index it starts from
strMatch(s, reg, flags, lastIndex) ==
    LET from == IF "g" \in flags THEN 0 ELSE IF "y" \in flags THEN lastIndex ELSE 0 IN
    IF "y" \in flags THEN MatchAt(reg, s, from) ELSE SearchFrom(reg, s, from)

\* the flags regHandler gives the expression it matches with
stickyFlags(flags) == (flags \cup {"y"}) \ {"g"}

regHandler(reg, s, index) ==
    LET res == strMatch(s, reg, stickyFlags(reg.flags), index) IN
    IF res # <<>> /\ res[1] # <<>> THEN Number(index + Len(res[1])) ELSE NullResult

\* the user's predicate
userFn(fn, s, start) ==
    IF start < Len(s) /\ s[start + 1] \in DOMAIN fn.table
    THEN Number(start + fn.table[s[start + 1]]) ELSE NullResult

customHandlerUnchecked(fn, s, start) == userFn(fn, s, start)

customHandler(fn, s, start) ==
    LET res == userFn(fn, s, start) IN
    IF res.kind = "number" /\ res.val <= start THEN Thrown ELSE res

\* Spliter.exec
SpliterExec(spliter, s, start) ==
    CASE spliter.kind = "string"   -> keywordHandler(spliter.keyword, s, start)
      [] spliter.kind = "regexp"   -> regHandler(spliter, s, start)
      [] spliter.kind = "function" -> customHandler(spliter, s, start)

(***************************************************************************)
(* Terminal declarations: what a terminal class passes to getToken, either *)
(* a bare spliter source or a record.  An absent string field is           *)
(* Undefined, an absent priority is <<>>, an absent popMode is FALSE.      *)
(***************************************************************************)
Bare(spliter) ==
    [form |-> "bare", spliter |-> spliter, mode |-> Undefined, pushMode |-> Undefined,
     popMode |-> FALSE, channel |-> Undefined, priority |-> <<>>]
Record(spliter, mode, pushMode, popMode, channel, priority) ==
    [form |-> "record", spliter |-> spliter, mode |-> mode, pushMode |-> pushMode,
     popMode |-> popMode, channel |-> channel, priority |-> priority]

\* !args of getTerminalParams: only the empty string is a falsy spliter source
Falsy(args) ==
    args.form = "bare" /\ args.spliter.kind = "string" /\ args.spliter.keyword = <<>>

\* the parameters of a declaration getTerminalParams accepts
getTerminalParams(args) ==
    [spliter  |-> args.spliter,
     channel  |-> IF args.channel = Undefined THEN "default" ELSE args.channel,
     priority |-> IF args.priority = <<>> THEN 0 ELSE args.priority[1],
     mode     |-> args.mode,
     pushMode |-> args.pushMode,
     popMode  |-> args.popMode]

\* Array.prototype.sort((a, b) => b.params.priority - a.params.priority):
\* a stable sort, here by insertion
RECURSIVE InsertMeta(_, _)
InsertMeta(sorted, meta) ==
    IF sorted = <<>> THEN << meta >>
    ELSE IF Head(sorted).params.priority >= meta.params.priority
         THEN << Head(sorted) >> \o InsertMeta(Tail(sorted), meta)
         ELSE << meta >> \o sorted

RECURSIVE SortFrom(_, _, _)
SortFrom(list, k, sorted) ==
    IF k > Len(list) THEN sorted ELSE SortFrom(list, k + 1, InsertMeta(sorted, list[k]))

sortUnsorted(list) == list

sort(list) == SortFrom(list, 1, <<>>)

\* the metas the Lexer constructor keeps; ctor is the position of the class in
\* the constructor's list
LexerMetas(terminals) ==
    sort([k \in 1..Len(terminals) |-> [ctor |-> k, params |-> getTerminalParams(terminals[k])]])

(***************************************************************************)
(* PositionCounter.                                                        *)
(***************************************************************************)
InitialPosition == [index |-> 0, row |-> 1, col |-> 1]

\* str.match(/\r\n|\r|\n/g)?.length ?? 0, scanning from the i-th character
RECURSIVE MatchRows(_, _)
MatchRows(s, i) ==
    IF i > Len(s) THEN 0
    ELSE IF s[i] = CR /\ i < Len(s) /\ s[i + 1] = LF THEN 1 + MatchRows(s, i + 2)
    ELSE IF s[i] \in {CR, LF} THEN 1 + MatchRows(s, i + 1)
    ELSE MatchRows(s, i + 1)

MatchRowsPairTwice(s, i) == Cardinality({j \in i..Len(s) : s[j] \in {CR, LF}})

\* str.match(/([^\r\n]*)$/)[0].length
RECURSIVE MatchCols(_)
MatchCols(s) ==
    IF s = <<>> \/ s[Len(s)] \in {CR, LF} THEN 0
    ELSE 1 + MatchCols(SubSeq(s, 1, Len(s) - 1))

getPositionPairTwice(counter, s) ==
    LET rows == MatchRowsPairTwice(s, 1)
        cols == MatchCols(s)
    IN  [start |-> counter,
         end   |-> [index |-> counter.index + Len(s),
                    row   |-> counter.row + rows,
                    col   |-> IF rows > 0 THEN 1 + cols ELSE counter.col + cols]]

\* getPosition(str): the positions it returns; the counter's start becomes end
getPosition(counter, s) ==
    LET rows == MatchRows(s, 1)
        cols == MatchCols(s)
    IN  [start |-> counter,
         end   |-> [index |-> counter.index + Len(s),
                    row   |-> counter.row + rows,
                    col   |-> IF rows > 0 THEN 1 + cols ELSE counter.col + cols]]

(***************************************************************************)
(* The terminal declarations and the inputs the model draws from.          *)
(***************************************************************************)
Letters == {"a", "b", "c"}
\* the characters . matches: all but the line terminators
Dot == {"a", "b", "c", "/", "*"}
LineTerminators == {CR, LF}
Alphabet == {"a", CR, LF}

NoPriority == <<>>

\* "a"
KwA == Bare(Keyword(<<"a">>))
\* /a*/g
ReAs == Bare(Reg({"a"}, "star", {"g"}))
\* { spliter: /[\r\n]+/, channel: "skip", popMode: true }
ReNewlines == Record(Reg(LineTerminators, "plus", {}), Undefined, Undefined, TRUE, "skip", NoPriority)
\* { spliter: "\r", pushMode: "c" }
KwCrPush == Record(Keyword(<<CR>>), Undefined, "c", FALSE, Undefined, NoPriority)
\* { spliter: /./, mode: "c", popMode: true }
ReAnyPop == Record(Reg(Dot, "one", {}), "c", Undefined, TRUE, Undefined, NoPriority)
\* { spliter: (str, start) => str[start] === "a" ? start + 2 :
\*                             str[start] === "\n" ? start : null,
\*   pushMode: "", priority: 1 }
FnTwo == Record(Predicate("a" :> 2 @@ LF :> 0), Undefined, "", FALSE, Undefined, <<1>>)
\* { spliter: "", pushMode: "c" }
KwEmptyPush == Record(Keyword(<<>>), Undefined, "c", FALSE, Undefined, NoPriority)
\* { spliter: "" }
KwEmpty == Record(Keyword(<<>>), Undefined, Undefined, FALSE, Undefined, NoPriority)
\* ""
BareEmpty == Bare(Keyword(<<>>))

Pool == {KwA, ReAs, ReNewlines, KwCrPush, ReAnyPop, FnTwo, KwEmptyPush, KwEmpty,
         BareEmpty}

\* the mode-switch scenario: OPEN, CLOSE, ANY, WORD
OPEN == Record(Keyword(<<"/", "*">>), Undefined, "c", FALSE, Undefined, NoPriority)
CLOSE == Record(Keyword(<<"*", "/">>), "c", Undefined, TRUE, Undefined, NoPriority)
ANY == Record(Reg(Dot, "one", {}), "c", Undefined, FALSE, "comment", NoPriority)
WORD == Bare(Reg(Letters, "plus", {}))
ModeSwitchTerminals == <<OPEN, CLOSE, ANY, WORD>>
ModeSwitchInput == <<"a", "/", "*", "b", "*", "/", "c">>

\* lists of distinct declarations
TerminalLists ==
    {ModeSwitchTerminals} \cup
    UNION {{l \in [1..n -> Pool] : \A i, j \in 1..n : l[i] = l[j] => i = j} :
           n \in 0..MaxTerminals}

Strings == UNION {[1..n -> Alphabet] : n \in 0..MaxLen}

Inputs(terminals) ==
    IF terminals = ModeSwitchTerminals THEN Strings \cup {ModeSwitchInput} ELSE Strings

(***************************************************************************)
(* The state: a Lexer (terminals as given to the constructor, metas as it  *)
(* keeps them) and the locals of one call of exec.                         *)
(***************************************************************************)
VARIABLES
    terminals,    \* the constructor's argument
    metas,        \* this.metas
    pc,           \* "rejected" (the constructor threw), "idle", "run" (in exec's
                  \* loop), "done" (exec returned), "thrown" (exec threw)
    str,          \* exec's argument
    modes,        \* the mode stack
    resultMap,    \* channel -> Stack of terminals
    failResults,  \* Stack of failure tokens
    counter,      \* the PositionCounter's start
    errorStart,   \* <<>> for undefined, <<n>> for n
    start,        \* the cursor
    result,       \* <<>> until exec returns, then << its result >>
    emitted,      \* history: the entries in the order exec emitted them
    iters,        \* history: iterations of the outer loop so far
    lastIndex,    \* stickyReg.lastIndex of each meta's regHandler (0 where the
                  \* spliter is not a regular expression)
    earlier       \* history: how the earlier calls of exec on this Lexer ended

lexerVars == <<terminals, metas, pc, str, modes, resultMap, failResults, counter,
               errorStart, start, result, emitted, iters, lastIndex, earlier>>

VARIABLES
    file,         \* the copy of the compiler in use: "parser.ts" or "part_000"
    fn,           \* the function called: "bnf", or "_bnf" of part_000
    grammar,      \* the grammar string given to bnf (to _bnf in part_000)
    strArr,       \* the string fragments given to bnf of part_000
    astArr,       \* the classes given to bnf of part_000
    bnfTokens,    \* what getRule gave to bnfTokensToRule
    group,        \* what bnfTokensToGroup returned
    rule,         \* the rule bnf throws in its AstDefineError
    bpc           \* "start", "tokens", "group", "done", or "error" (an Error was thrown)

bnfVars == <<file, fn, grammar, strArr, astArr, bnfTokens, group, rule, bpc>>

VARIABLES
    aStack,        \* a Stack used by itself
    seq,          \* history: the values pushed and not popped, the oldest first
    popped        \* what the last pop returned

stackVars == <<aStack, seq, popped>>

vars == <<lexerVars, bnfVars, stackVars>>

\* no Stack is used by itself
StackOff == aStack = NewStack /\ seq = <<>> /\ popped = Undefined

\* no grammar is being compiled
BnfOff ==
    /\ file = "" /\ fn = "" /\ grammar = <<>> /\ strArr = <<>> /\ astArr = <<>>
    /\ bnfTokens = <<>> /\ group = <<>> /\ rule = <<>> /\ bpc = "off"

\* the iterations since the cursor last moved: each emitted a terminal of no
\* characters at the cursor
RECURSIVE StallsFrom(_)
StallsFrom(k) ==
    IF k >= 1 /\ emitted[k].kind = "success" /\ emitted[k].token.content = <<>>
              /\ emitted[k].at = start
    THEN 1 + StallsFrom(k - 1) ELSE 0
Stalls == StallsFrom(Len(emitted))
Successes == Cardinality({k \in 1..Len(emitted) : emitted[k].kind = "success"})

\* In a call that returns, the iterations that leave the cursor where it is push
\* at most once per terminal and pop at most what is on the mode stack, so there
\* are at most 2 * Len(metas) + (the terminals emitted before them) in a row.  A
\* call past that never returns, and the model stops following it.
WithinCap == 2 * Stalls <= 2 * Len(metas) + Successes

\* new Lexer(terminals)
LexerInit ==
    /\ terminals \in TerminalLists
    /\ IF \E k \in 1..Len(terminals) : Falsy(terminals[k])
       THEN pc = "rejected" /\ metas = <<>>
       ELSE pc = "idle" /\ metas = LexerMetas(terminals)
    /\ str = <<>>
    /\ modes = NewStack
    /\ resultMap = <<>>
    /\ failResults = NewStack
    /\ counter = InitialPosition
    /\ errorStart = <<>>
    /\ start = 0
    /\ result = <<>>
    /\ emitted = <<>>
    /\ iters = 0
    /\ lastIndex = [k \in 1..Len(metas) |-> 0]
    /\ earlier = {}

generateResultMap(ms) ==
    [channel \in {ms[k].params.channel : k \in 1..Len(ms)} |-> NewStack]

getResult(map) == [channel \in DOMAIN map |-> StackToArray(map[channel])]

Truthy(string) == string # Undefined /\ string # ""

switchModeNoPop(meta, stack) ==
    IF Truthy(meta.params.pushMode) THEN StackPush(stack, meta.params.pushMode) ELSE stack

switchMode(meta, stack) ==
    LET pushed == IF Truthy(meta.params.pushMode)
                  THEN StackPush(stack, meta.params.pushMode) ELSE stack
    IN  IF meta.params.popMode THEN StackPop(pushed) ELSE pushed

FailEntry(token, top) ==
    [kind |-> "fail", ctor |-> 0, channel |-> "", token |-> token,
     at |-> token.start.index, top |-> top, depth |-> 0]

collectFailResultDrop(es, cursor, s, cnt, fails, top) ==
    [failResults |-> fails, counter |-> cnt, log |-> <<>>]

\* collectFailResult(): the failure stack and the counter after it, and what it
\* emitted; errorStart is undefined after it
collectFailResult(es, cursor, s, cnt, fails, top) ==
    IF es # <<>>
    THEN LET content == slice(s, es[1], cursor)
             positions == getPosition(cnt, content)
             token == [content |-> content, start |-> positions.start, end |-> positions.end]
         IN  [failResults |-> StackPush(fails, token),
              counter     |-> positions.end,
              log         |-> << FailEntry(token, top) >>]
    ELSE [failResults |-> fails, counter |-> cnt, log |-> <<>>]

gateOpen(meta, top) == TRUE

\* the negation of "meta.params.mode !== modes.top"
gate(meta, top) == meta.params.mode = top

\* as the for loop, but regHandler does without "stickyReg.lastIndex = index":
\* a regular expression matches from where its last match left it
RECURSIVE TryStale(_, _, _, _, _)
TryStale(ms, k, s, cursor, top) ==
    IF k > Len(ms) THEN [kind |-> "none", k |-> 0, end |-> 0]
    ELSE IF ~gate(ms[k], top) THEN TryStale(ms, k + 1, s, cursor, top)
    ELSE LET spliter == ms[k].params.spliter
             res == strMatch(s, spliter, stickyFlags(spliter.flags), lastIndex[k])
             end == IF spliter.kind # "regexp" THEN SpliterExec(spliter, s, cursor)
                    ELSE IF res # <<>> /\ res[1] # <<>> THEN Number(cursor + Len(res[1]))
                    ELSE NullResult
         IN  CASE end.kind = "throw"  -> [kind |-> "throw", k |-> k, end |-> 0]
               [] end.kind = "number" -> [kind |-> "match", k |-> k, end |-> end.val]
               [] OTHER               -> TryStale(ms, k + 1, s, cursor, top)

\* as the for loop, but the first meta is passed over
RECURSIVE TryButFirst(_, _, _, _, _)
TryButFirst(ms, k, s, cursor, top) ==
    IF k > Len(ms) THEN [kind |-> "none", k |-> 0, end |-> 0]
    ELSE IF k = 1 \/ ~gate(ms[k], top) THEN TryButFirst(ms, k + 1, s, cursor, top)
    ELSE LET end == SpliterExec(ms[k].params.spliter, s, cursor) IN
         CASE end.kind = "throw"  -> [kind |-> "throw", k |-> k, end |-> 0]
           [] end.kind = "number" -> [kind |-> "match", k |-> k, end |-> end.val]
           [] OTHER               -> TryButFirst(ms, k + 1, s, cursor, top)

\* the for loop over this.metas from the k-th on: the first meta whose mode is
\* the top of the mode stack and whose spliter answers a number or throws
RECURSIVE Try(_, _, _, _, _)
Try(ms, k, s, cursor, top) ==
    IF k > Len(ms) THEN [kind |-> "none", k |-> 0, end |-> 0]
    ELSE IF ~gate(ms[k], top) THEN Try(ms, k + 1, s, cursor, top)
    ELSE LET end == SpliterExec(ms[k].params.spliter, s, cursor) IN
         CASE end.kind = "throw"  -> [kind |-> "throw", k |-> k, end |-> 0]
           [] end.kind = "number" -> [kind |-> "match", k |-> k, end |-> end.val]
           [] OTHER               -> Try(ms, k + 1, s, cursor, top)

\* stickyReg.lastIndex after str.match(stickyReg) with lastIndex set to index:
\* the end of the match, 0 when there is none
lastIndexAfter(reg, s, index) ==
    LET res == strMatch(s, reg, stickyFlags(reg.flags), index) IN
    IF res = <<>> THEN 0 ELSE index + Len(res[1])

\* the lastIndex of every stickyReg after the for loop over this.metas from the
\* k-th on, li being what they are before it
RECURSIVE Walk(_, _, _, _, _, _)
Walk(ms, k, s, cursor, top, li) ==
    IF k > Len(ms) THEN li
    ELSE IF ~gate(ms[k], top) THEN Walk(ms, k + 1, s, cursor, top, li)
    ELSE LET spliter == ms[k].params.spliter
             end == SpliterExec(spliter, s, cursor)
             after == IF spliter.kind = "regexp"
                      THEN [li EXCEPT ![k] = lastIndexAfter(spliter, s, cursor)]
                      ELSE li
         IN  IF end.kind \in {"throw", "number"} THEN after
             ELSE Walk(ms, k + 1, s, cursor, top, after)

\* exec(s): the locals before the loop
ExecCall(s) ==
    /\ pc = "idle"
    /\ pc' = "run"
    /\ str' = s
    /\ modes' = NewStack
    /\ resultMap' = generateResultMap(metas)
    /\ counter' = InitialPosition
    /\ failResults' = NewStack
    /\ errorStart' = <<>>
    /\ start' = 0
    /\ emitted' = <<>>
    /\ iters' = 0
    /\ UNCHANGED <<terminals, metas, result, lastIndex, earlier, bnfVars, stackVars>>

Looping == pc = "run" /\ start < Len(str) /\ WithinCap

\* an iteration of the outer loop in which a terminal matches
Match ==
    /\ Looping
    /\ LET o == Try(metas, 1, str, start, StackTop(modes)) IN
       /\ o.kind = "match"
       /\ LET meta == metas[o.k]
              flush == collectFailResult(errorStart, start, str, counter, failResults,
                                         StackTop(modes))
              content == slice(str, start, o.end)
              positions == getPosition(flush.counter, content)
              terminal == [ctor  |-> meta.ctor,
                           token |-> [content |-> content, start |-> positions.start,
                                      end |-> positions.end]]
          IN  /\ modes' = switchMode(meta, modes)
              /\ failResults' = flush.failResults
              /\ errorStart' = <<>>
              /\ counter' = positions.end
              /\ start' = o.end
              /\ resultMap' = [resultMap EXCEPT ![meta.params.channel] = StackPush(@, terminal)]
              /\ emitted' = emitted \o flush.log \o
                     << [kind |-> "success", ctor |-> meta.ctor, channel |-> meta.params.channel,
                         token |-> terminal.token, at |-> start, top |-> StackTop(modes),
                         depth |-> modes.leng] >>
    /\ iters' = iters + 1
    /\ lastIndex' = Walk(metas, 1, str, start, StackTop(modes), lastIndex)
    /\ UNCHANGED <<terminals, metas, pc, str, result, earlier, bnfVars, stackVars>>

\* an iteration of the outer loop in which no terminal matches
NoMatch ==
    /\ Looping
    /\ Try(metas, 1, str, start, StackTop(modes)).kind = "none"
    /\ errorStart' = IF errorStart = <<>> THEN << start >> ELSE errorStart
    /\ start' = start + 1
    /\ iters' = iters + 1
    /\ lastIndex' = Walk(metas, 1, str, start, StackTop(modes), lastIndex)
    /\ UNCHANGED <<terminals, metas, pc, str, modes, resultMap, failResults, counter,
                   result, emitted, earlier, bnfVars, stackVars>>

\* an iteration of the outer loop in which a spliter throws SpliterHandlerError
Throw ==
    /\ Looping
    /\ Try(metas, 1, str, start, StackTop(modes)).kind = "throw"
    /\ pc' = "thrown"
    /\ iters' = iters + 1
    /\ lastIndex' = Walk(metas, 1, str, start, StackTop(modes), lastIndex)
    /\ UNCHANGED <<terminals, metas, str, modes, resultMap, failResults, counter,
                   errorStart, start, result, emitted, earlier, bnfVars, stackVars>>

\* the loop's exit: the last collectFailResult() and the return
Return ==
    /\ pc = "run"
    /\ start >= Len(str)
    /\ LET flush == collectFailResult(errorStart, start, str, counter, failResults,
                                      StackTop(modes))
       IN  /\ failResults' = flush.failResults
           /\ counter' = flush.counter
           /\ errorStart' = <<>>
           /\ emitted' = emitted \o flush.log
           /\ result' = << [success |-> getResult(resultMap),
                            fail    |-> StackToArray(flush.failResults)] >>
    /\ pc' = "done"
    /\ UNCHANGED <<terminals, metas, str, modes, resultMap, start, iters, lastIndex,
                   earlier, bnfVars, stackVars>>

Init == LexerInit /\ BnfOff /\ StackOff

Next ==
    \/ \E s \in Inputs(terminals) : ExecCall(s)
    \/ Match
    \/ NoMatch
    \/ Throw
    \/ Return

Spec == Init /\ [][Next]_vars

(***************************************************************************)
(* A Lexer whose exec is called again and again.  The locals of a call are *)
(* made anew by it; the stickyReg of each regHandler outlives it.          *)
(***************************************************************************)
CallPool == {ReAs, KwCrPush, ReAnyPop, FnTwo}

CallTerminalLists ==
    {list \in UNION {[1..n -> CallPool] : n \in 1..MaxTerminals} :
        \A i, j \in 1..Len(list) : list[i] = list[j] => i = j}

InitCalls ==
    /\ terminals \in CallTerminalLists
    /\ pc = "idle"
    /\ metas = LexerMetas(terminals)
    /\ str = <<>>
    /\ modes = NewStack
    /\ resultMap = <<>>
    /\ failResults = NewStack
    /\ counter = InitialPosition
    /\ errorStart = <<>>
    /\ start = 0
    /\ result = <<>>
    /\ emitted = <<>>
    /\ iters = 0
    /\ lastIndex = [k \in 1..Len(metas) |-> 0]
    /\ earlier = {}
    /\ BnfOff
    /\ StackOff

\* exec(s) after an earlier call has returned or thrown
ExecAgain(s) ==
    /\ pc \in {"done", "thrown"}
    /\ pc' = "run"
    /\ str' = s
    /\ modes' = NewStack
    /\ resultMap' = generateResultMap(metas)
    /\ counter' = InitialPosition
    /\ failResults' = NewStack
    /\ errorStart' = <<>>
    /\ start' = 0
    /\ result' = <<>>
    /\ emitted' = <<>>
    /\ iters' = 0
    /\ earlier' = earlier \cup {pc} \cup (IF modes.leng > 0 THEN {"modes"} ELSE {})
    /\ UNCHANGED <<terminals, metas, lastIndex, bnfVars, stackVars>>

NextCalls ==
    \/ \E s \in Strings : ExecCall(s)
    \/ \E s \in Strings : ExecAgain(s)
    \/ Match
    \/ NoMatch
    \/ Throw
    \/ Return

SpecCalls == InitCalls /\ [][NextCalls]_vars

(***************************************************************************)
(* The BNF grammar compiler of parser.ts.  A token is a string (a sequence *)
(* of characters) or an AstClass; a group is a list of tokens and groups.  *)
(* An item of a list says which it is: "str", "ref" or "grp".              *)
(***************************************************************************)
Spaces == {" "}
Operators == {"|", "(", ")", "+", "*", "?"}

Str(chars) == [t |-> "str", v |-> chars]
Ref(name) == [t |-> "ref", v |-> name]
Grp(items) == [t |-> "grp", v |-> items]

\* str.split(/\s+|([\|\(\)\+\*\?])/) from the i-th character on, piece being the
\* text since the last separator: a run of spaces separates and adds undefined
\* (here <<>>), an operator character separates and adds itself
RECURSIVE split(_, _, _)
split(s, i, piece) ==
    IF i > Len(s) THEN << piece >>
    ELSE IF s[i] \in Spaces
         THEN LET n == RunLength(Spaces, s, i - 1)
              IN  << piece, <<>> >> \o split(s, i + n, <<>>)
    ELSE IF s[i] \in Operators THEN << piece, << s[i] >> >> \o split(s, i + 1, <<>>)
    ELSE split(s, i + 1, Append(piece, s[i]))

\* Array.prototype.filter(it => it) on strings and undefined
filter(list) == SelectSeq(list, LAMBDA it : it # <<>>)

toTokens(s) == filter(split(s, 1, <<>>))

\* the map given to bnf: { a: a, b: b }
MapKeys == {<<"a">>, <<"b">>}

astMap(tokens) ==
    [k \in 1..Len(tokens) |->
        IF tokens[k] \in MapKeys THEN Ref(tokens[k][1]) ELSE Str(tokens[k])]

\* what a function that can throw returns
Returned(value) == [ok |-> TRUE, value |-> value]
ThrewError == [ok |-> FALSE, value |-> <<>>]

\* the loop of bnfTokensToGroup from the i-th token on; stack lists the children
\* of the open groups, the innermost last
RECURSIVE GroupFrom(_, _, _)
GroupFrom(tokens, i, stack) ==
    IF i > Len(tokens)
    THEN IF Len(stack) > 1 THEN ThrewError ELSE Returned(stack[1])
    ELSE IF tokens[i] = Str(<<"(">>) THEN GroupFrom(tokens, i + 1, Append(stack, <<>>))
    ELSE IF tokens[i] = Str(<<")">>)
         THEN IF Len(stack) = 1 THEN ThrewError
              ELSE LET n == Len(stack) IN
                   GroupFrom(tokens, i + 1,
                             Append(SubSeq(stack, 1, n - 2),
                                    Append(stack[n - 1], Grp(stack[n]))))
    ELSE GroupFrom(tokens, i + 1, [stack EXCEPT ![Len(stack)] = Append(@, tokens[i])])

bnfTokensToGroup(tokens) == GroupFrom(tokens, 1, << <<>> >>)

isOrGroup(g) == \E k \in 1..Len(g) : g[k] = Str(<<"|">>)

isOperator(item) == item \in {Str(<<"+">>), Str(<<"*">>), Str(<<"?">>)}

operatorTypeMap(item) ==
    CASE item = Str(<<"+">>) -> "more"
      [] item = Str(<<"*">>) -> "repeat"
      [] item = Str(<<"?">>) -> "optional"

\* the loop of splitOrGroup from the i-th item on
RECURSIVE SplitOrFrom(_, _, _, _)
SplitOrFrom(g, i, res, current) ==
    IF i > Len(g) THEN Append(res, current)
    ELSE IF g[i] = Str(<<"|">>) THEN SplitOrFrom(g, i + 1, Append(res, current), <<>>)
    ELSE SplitOrFrom(g, i + 1, res, Append(current, g[i]))

RECURSIVE SplitOrFromNoLast(_, _, _, _)
SplitOrFromNoLast(g, i, res, current) ==
    IF i > Len(g) THEN res
    ELSE IF g[i] = Str(<<"|">>) THEN SplitOrFromNoLast(g, i + 1, Append(res, current), <<>>)
    ELSE SplitOrFromNoLast(g, i + 1, res, Append(current, g[i]))

splitOrGroupNoLast(g) == SplitOrFromNoLast(g, 1, <<>>, <<>>)

splitOrGroup(g) == SplitOrFrom(g, 1, <<>>, <<>>)

EmptyRule == [type |-> "empty", children |-> <<>>]
SubRule(name) == [type |-> "sub", children |-> Ref(name)]

RECURSIVE groupToRule(_)
RECURSIVE toSub(_)
RECURSIVE SplitAndFrom(_, _, _)
RECURSIVE GroupArrFrom(_, _, _)

\* groupArr.map(group => groupToRule(group)) from the i-th group on
GroupArrFrom(groupArr, i, rules) ==
    IF i > Len(groupArr) THEN Returned(rules)
    ELSE LET r == groupToRule(groupArr[i]) IN
         IF r.ok THEN GroupArrFrom(groupArr, i + 1, Append(rules, r.value)) ELSE ThrewError

groupArrToRule(groupArr) == GroupArrFrom(groupArr, 1, <<>>)

toOr(g) ==
    LET children == groupArrToRule(splitOrGroup(g)) IN
    IF children.ok THEN Returned([type |-> "or", children |-> children.value]) ELSE ThrewError

toSub(current) ==
    IF current.t = "str" THEN ThrewError
    ELSE IF current.t = "grp" THEN groupToRule(current.v)
    ELSE Returned(SubRule(current.v))

\* the loop of splitAndGroup from the i-th item on
SplitAndFrom(g, i, res) ==
    IF i > Len(g) THEN Returned(res)
    ELSE IF isOperator(g[i])
         THEN IF res = <<>> THEN ThrewError
              ELSE SplitAndFrom(g, i + 1,
                       Append(SubSeq(res, 1, Len(res) - 1),
                              [type |-> operatorTypeMap(g[i]),
                               children |-> << res[Len(res)] >>]))
    ELSE LET sub == toSub(g[i]) IN
         IF sub.ok THEN SplitAndFrom(g, i + 1, Append(res, sub.value)) ELSE ThrewError

splitAndGroup(g) == SplitAndFrom(g, 1, <<>>)

toAnd(g) ==
    LET subGroups == splitAndGroup(g) IN
    IF ~subGroups.ok THEN ThrewError
    ELSE IF Len(subGroups.value) = 1 THEN Returned(subGroups.value[1])
    ELSE Returned([type |-> "and", children |-> subGroups.value])

groupToRule(g) ==
    IF Len(g) = 0 THEN Returned(EmptyRule)
    ELSE IF isOrGroup(g) THEN toOr(g) ELSE toAnd(g)

\* bnfTokensToRule after bnfTokensToGroup
groupToTopRule(g) ==
    LET r == groupToRule(g) IN
    IF r.ok /\ r.value.type = "sub"
    THEN Returned([type |-> "and", children |-> << r.value >>])
    ELSE r

(***************************************************************************)
(* bnf(str, map) as three steps: getRule's tokens, bnfTokensToRule's       *)
(* group, and the rule.                                                    *)
(***************************************************************************)
GrammarAlphabet == {"a", " ", "|", "(", ")", "+", "*", "?"}

\* "a b | (a)+ | ((a | b)+)+ | b? | "
ExampleGrammar ==
    <<"a", " ", "b", " ", "|", " ", "(", "a", ")", "+", " ", "|", " ",
      "(", "(", "a", " ", "|", " ", "b", ")", "+", ")", "+", " ", "|", " ",
      "b", "?", " ", "|", " ">>

Grammars == {ExampleGrammar} \cup UNION {[1..n -> GrammarAlphabet] : n \in 0..MaxGrammarLen}

LexerOff ==
    /\ terminals = <<>> /\ metas = <<>> /\ pc = "off" /\ str = <<>>
    /\ modes = NewStack /\ resultMap = <<>> /\ failResults = NewStack
    /\ counter = InitialPosition /\ errorStart = <<>> /\ start = 0
    /\ result = <<>> /\ emitted = <<>> /\ iters = 0
    /\ lastIndex = <<>> /\ earlier = {}

\* a class whose children field is bnf(grammar, { a, b })
InitBnf ==
    /\ file = "parser.ts"
    /\ fn = "bnf"
    /\ grammar \in Grammars
    /\ strArr = <<>>
    /\ astArr = <<>>
    /\ bnfTokens = <<>>
    /\ group = <<>>
    /\ rule = <<>>
    /\ bpc = "start"
    /\ LexerOff
    /\ StackOff

Tokenize ==
    /\ file = "parser.ts"
    /\ bpc = "start"
    /\ bnfTokens' = astMap(toTokens(grammar))
    /\ bpc' = "tokens"
    /\ UNCHANGED <<file, fn, grammar, strArr, astArr, group, rule, lexerVars, stackVars>>

BuildGroup ==
    /\ bpc = "tokens"
    /\ LET g == bnfTokensToGroup(bnfTokens) IN
       IF g.ok THEN group' = g.value /\ bpc' = "group"
       ELSE group' = group /\ bpc' = "error"
    /\ UNCHANGED <<file, fn, grammar, strArr, astArr, bnfTokens, rule, lexerVars, stackVars>>

Lower ==
    /\ file = "parser.ts"
    /\ bpc = "group"
    /\ LET r == groupToTopRule(group) IN
       IF r.ok THEN rule' = r.value /\ bpc' = "done"
       ELSE rule' = rule /\ bpc' = "error"
    /\ UNCHANGED <<file, fn, grammar, strArr, astArr, bnfTokens, group, lexerVars, stackVars>>

NextBnf ==
    \/ Tokenize
    \/ BuildGroup
    \/ Lower

SpecBnf == InitBnf /\ [][NextBnf]_vars

(***************************************************************************)
(* The copy of the compiler in part_000.  Its bnf takes string fragments   *)
(* and classes in turn (a tagged template), its _bnf a string and a map;   *)
(* toTokens, astMap, bnfTokensToGroup, isOrGroup and splitOrGroup are as   *)
(* in parser.ts.  Nothing in its lowering throws.                          *)
(***************************************************************************)
MaxFragments == 3

\* result.push(strArr[i], astArr[i]) for i < min, then the rest of each
RECURSIVE zip(_, _)
zip(strs, asts) ==
    IF strs = <<>> THEN [k \in 1..Len(asts) |-> Ref(asts[k])]
    ELSE IF asts = <<>> THEN [k \in 1..Len(strs) |-> Str(strs[k])]
    ELSE << Str(Head(strs)), Ref(Head(asts)) >> \o zip(Tail(strs), Tail(asts))

RECURSIVE toBnfTokens(_)
toBnfTokens(arr) ==
    IF arr = <<>> THEN <<>>
    ELSE LET item == Head(arr)
             tokens == toTokens(item.v)
         IN  (IF item.t = "str" THEN [k \in 1..Len(tokens) |-> Str(tokens[k])]
              ELSE << item >>) \o toBnfTokens(Tail(arr))

\* getRule of part_000: the tokens it gives to bnfTokensToRule
getRule_000(f, s, strs, asts) ==
    IF f = "bnf" THEN toBnfTokens(zip(strs, asts)) ELSE astMap(toTokens(s))

RECURSIVE groupToRule_000(_)
RECURSIVE SplitAndFrom_000(_, _, _)

\* the loop of splitAndGroup of part_000 from the i-th item on
SplitAndFrom_000(g, i, res) ==
    IF i > Len(g) THEN res
    ELSE LET current == g[i]
             sub == IF current.t = "grp" THEN groupToRule_000(current.v)
                    ELSE [type |-> "sub", children |-> current]
         IN  IF i < Len(g) /\ isOperator(g[i + 1])
             THEN SplitAndFrom_000(g, i + 2,
                      Append(res, [type |-> operatorTypeMap(g[i + 1]),
                                   children |-> << sub >>]))
             ELSE SplitAndFrom_000(g, i + 1, Append(res, sub))

splitAndGroup_000(g) == SplitAndFrom_000(g, 1, <<>>)

toAnd_000(g) == [type |-> "and", children |-> splitAndGroup_000(g)]

groupArrToRule_000(groupArr) ==
    [k \in 1..Len(groupArr) |-> groupToRule_000(groupArr[k])]

toOr_000(g) == [type |-> "or", children |-> groupArrToRule_000(splitOrGroup(g))]

groupToRule_000(g) ==
    IF Len(g) = 0 THEN EmptyRule
    ELSE IF isOrGroup(g) THEN toOr_000(g) ELSE toAnd_000(g)

\* the string fragments of a template
Fragments ==
    { <<>>, <<" ">>, <<"+">>, <<" ", "(">>, <<")">>, <<"x">>, <<"|">>, <<"?", " ">> }

Classes == {"a", "b"}

Templates ==
    UNION {[1..n -> Fragments] \X [1..m -> Classes] : n, m \in 0..MaxFragments}

\* a class whose children field is bnf or _bnf of either copy
InitCompile ==
    \/ InitBnf
    \/ /\ file = "part_000"
       /\ \/ fn = "_bnf" /\ grammar \in Grammars /\ strArr = <<>> /\ astArr = <<>>
          \/ /\ fn = "bnf" /\ grammar = <<>>
             /\ \E tpl \in Templates : strArr = tpl[1] /\ astArr = tpl[2]
       /\ bnfTokens = <<>>
       /\ group = <<>>
       /\ rule = <<>>
       /\ bpc = "start"
       /\ LexerOff
       /\ StackOff

Tokenize_000 ==
    /\ file = "part_000"
    /\ bpc = "start"
    /\ bnfTokens' = getRule_000(fn, grammar, strArr, astArr)
    /\ bpc' = "tokens"
    /\ UNCHANGED <<file, fn, grammar, strArr, astArr, group, rule, lexerVars, stackVars>>

Lower_000 ==
    /\ file = "part_000"
    /\ bpc = "group"
    /\ rule' = groupToRule_000(group)
    /\ bpc' = "done"
    /\ UNCHANGED <<file, fn, grammar, strArr, astArr, bnfTokens, group, lexerVars, stackVars>>

NextCompile ==
    \/ Tokenize
    \/ Tokenize_000
    \/ BuildGroup
    \/ Lower
    \/ Lower_000

SpecCompile == InitCompile /\ [][NextCompile]_vars

(***************************************************************************)
(* A Stack used by itself: made from an array, then pushed to and popped.  *)
(***************************************************************************)
MaxStack == 4

Values == {"x", "y"}

Arrays == UNION {[1..n -> Values] : n \in 0..(MaxStack - 1)}

InitStack ==
    /\ \E arr \in Arrays : aStack = StackFrom(arr) /\ seq = arr
    /\ popped = Undefined
    /\ LexerOff
    /\ BnfOff

Push(item) ==
    /\ StackLength(aStack) < MaxStack
    /\ aStack' = StackPush(aStack, item)
    /\ seq' = Append(seq, item)
    /\ UNCHANGED <<popped, lexerVars, bnfVars>>

Pop ==
    /\ aStack' = StackPop(aStack)
    /\ popped' = StackPopValue(aStack)
    /\ seq' = IF seq = <<>> THEN seq ELSE SubSeq(seq, 1, Len(seq) - 1)
    /\ UNCHANGED <<lexerVars, bnfVars>>

NextStack ==
    \/ \E item \in Values : Push(item)
    \/ Pop

SpecStack == InitStack /\ [][NextStack]_vars

(***************************************************************************)
(* What the claims speak of.                                               *)
(***************************************************************************)
\* the tokens of a lex result, each with where it is in the result
ResultTokens(r) ==
    {[kind |-> "success", channel |-> ch, k |-> k, token |-> r.success[ch][k].token] :
        <<ch, k>> \in UNION {{<<c, i>> : i \in 1..Len(r.success[c])} : c \in DOMAIN r.success}}
    \cup {[kind |-> "fail", channel |-> "", k |-> k, token |-> r.fail[k]] : k \in 1..Len(r.fail)}

\* the tokens emitted so far, as the channel buckets and the failure stack hold them
HeldTokens ==
    ResultTokens([success |-> getResult(resultMap), fail |-> StackToArray(failResults)])

\* e comes no later than f when the tokens are ordered by start.index
Before(e, f) ==
    \/ e.token.start.index < f.token.start.index
    \/ /\ e.token.start.index = f.token.start.index
       /\ e.token.end.index <= f.token.end.index

\* the contents of a set of tokens, concatenated in the order of start.index
RECURSIVE MergedContent(_)
MergedContent(tokens) ==
    IF tokens = {} THEN <<>>
    ELSE LET first == CHOOSE e \in tokens : \A f \in tokens : Before(e, f)
         IN  first.token.content \o MergedContent(tokens \ {first})

\* the line terminators of a text: \r\n once, a lone \r and a lone \n once each
Terminators(text) ==
    Cardinality({i \in 1..Len(text) : text[i] = LF})
    + Cardinality({i \in 1..Len(text) : text[i] = CR /\ (i = Len(text) \/ text[i + 1] # LF)})

\* the characters after the last line terminator of a text that has one
AfterLastTerminator(text) ==
    LET last == CHOOSE i \in 1..Len(text) :
                    /\ text[i] \in LineTerminators
                    /\ \A j \in (i + 1)..Len(text) : text[j] \notin LineTerminators
    IN  Len(text) - last

SuccessEntries == {k \in 1..Len(emitted) : emitted[k].kind = "success"}

Declared(k) == getTerminalParams(terminals[k])

\* the declared terminals whose mode is top and whose matcher succeeds at cursor
Candidates(cursor, top) ==
    {k \in 1..Len(terminals) :
        /\ Declared(k).mode = top
        /\ SpliterExec(Declared(k).spliter, str, cursor).kind = "number"}

(***************************************************************************)
(* C1  Coverage: when exec(s) returns, the contents of all success         *)
(* terminals of all channels and of all failure fragments, concatenated in *)
(* the order of start.index, are exactly s.                                *)
(***************************************************************************)
Coverage ==
    pc = "done" => MergedContent(ResultTokens(result[1])) = str

CoverageWitness ==
    /\ pc = "done"
    /\ Len(str) >= 3
    /\ result[1].fail # <<>>
    /\ \E c, d \in DOMAIN result[1].success :
          c # d /\ result[1].success[c] # <<>> /\ result[1].success[d] # <<>>

(***************************************************************************)
(* C2  Monotonicity: the first entry emitted starts at index 0, every next *)
(* entry starts where the one before it ends, and so the terminals of each *)
(* channel and the failure fragments are in strictly increasing order of   *)
(* start.index.                                                            *)
(***************************************************************************)
\* C2, first part: each entry starts where the one before it ends, the first at 0
Chained ==
    /\ emitted # <<>> => emitted[1].token.start.index = 0
    /\ \A k \in 1..(Len(emitted) - 1) :
          emitted[k + 1].token.start.index = emitted[k].token.end.index

StrictlyIncreasing(tokens) ==
    \A i, j \in 1..Len(tokens) : i < j => tokens[i].start.index < tokens[j].start.index

\* C2: the entries are chained, and each channel and the failure list of the
\* result are in strictly increasing order of start.index
Monotonicity ==
    /\ Chained
    /\ pc = "done" =>
          /\ \A ch \in DOMAIN result[1].success :
                StrictlyIncreasing([k \in 1..Len(result[1].success[ch]) |->
                                       result[1].success[ch][k].token])
          /\ StrictlyIncreasing(result[1].fail)

(***************************************************************************)
(* C3  No zero-width success: every success terminal exec emits has        *)
(* end.index > start.index.                                                *)
(***************************************************************************)
NoZeroWidthSuccess ==
    \A e \in HeldTokens : e.kind = "success" => e.token.end.index > e.token.start.index

(***************************************************************************)
(* C4  Priority determinism: the terminal selected at a cursor position is *)
(* one whose mode is the top of the mode stack and whose matcher succeeds  *)
(* there, no other such terminal has a higher priority, and none of equal  *)
(* priority is declared earlier.                                           *)
(***************************************************************************)
PriorityDeterminism ==
    \A n \in SuccessEntries :
        LET e == emitted[n] IN
        /\ e.ctor \in Candidates(e.at, e.top)
        /\ \A k \in Candidates(e.at, e.top) :
              \/ Declared(e.ctor).priority > Declared(k).priority
              \/ Declared(e.ctor).priority = Declared(k).priority /\ e.ctor <= k

\* a terminal declared later was selected for its priority over one that would
\* have consumed more
PriorityDeterminismWitness ==
    \E n \in SuccessEntries :
        LET e == emitted[n] IN
        \E k \in Candidates(e.at, e.top) :
            /\ k < e.ctor
            /\ Declared(k).priority < Declared(e.ctor).priority
            /\ SpliterExec(Declared(k).spliter, str, e.at).val
                   > SpliterExec(Declared(e.ctor).spliter, str, e.at).val

(***************************************************************************)
(* C5  Mode gating: the declared mode of every terminal exec emits is the  *)
(* top of the mode stack at the moment of its match: a terminal with a     *)
(* mode is not selected on an empty stack, one without a mode is not       *)
(* selected on a non-empty stack.                                          *)
(***************************************************************************)
ModeGating ==
    \A n \in SuccessEntries :
        LET e == emitted[n] IN
        /\ Declared(e.ctor).mode = e.top
        /\ Declared(e.ctor).mode # Undefined => e.depth > 0
        /\ Declared(e.ctor).mode = Undefined => e.depth = 0

ModeGatingWitness ==
    /\ \E n \in SuccessEntries : Declared(emitted[n].ctor).mode = "c"
    /\ \E n \in SuccessEntries : Declared(emitted[n].ctor).mode = Undefined
    /\ \E k \in 1..Len(terminals) :
          /\ Declared(k).mode = "c"
          /\ modes.leng = 0
          /\ pc = "run" /\ start < Len(str)
          /\ SpliterExec(Declared(k).spliter, str, start).kind = "number"

(***************************************************************************)
(* C6  Position consistency: for every token emitted, success or failure,  *)
(* end.index - start.index is the length of content, end.row is start.row  *)
(* plus the line terminators of content, and end.col is 1 plus the         *)
(* characters after the last terminator of content if it has one, else     *)
(* start.col plus the length of content.                                   *)
(***************************************************************************)
PositionConsistency ==
    \A e \in HeldTokens :
        LET tok == e.token IN
        /\ tok.end.index - tok.start.index = Len(tok.content)
        /\ tok.end.row = tok.start.row + Terminators(tok.content)
        /\ tok.end.col = IF Terminators(tok.content) > 0
                         THEN 1 + AfterLastTerminator(tok.content)
                         ELSE tok.start.col + Len(tok.content)

PositionConsistencyWitness ==
    \E e \in HeldTokens :
        /\ e.token.start.col > 1
        /\ \E i \in 1..(Len(e.token.content) - 1) :
              e.token.content[i] = CR /\ e.token.content[i + 1] = LF

(***************************************************************************)
(* C7  Mode-switch scenario.  As claimed: exec("a/*b*/c") with OPEN,       *)
(* CLOSE, ANY, WORD returns the default channel [WORD "a", WORD "c"], a    *)
(* comment channel that contains OPEN, ANY "b" and CLOSE, and no failure.  *)
(* As the code has it: OPEN and CLOSE declare no channel and so are in the *)
(* default channel, which is [WORD "a", OPEN "/*", CLOSE "*/", WORD "c"];  *)
(* the comment channel is [ANY "b"]; there is no failure.                  *)
(***************************************************************************)
ModeSwitchReturned ==
    pc = "done" /\ terminals = ModeSwitchTerminals /\ str = ModeSwitchInput

\* a channel of the result as <<position of the class in the list, content>>
Channel(ch) ==
    [k \in 1..Len(result[1].success[ch]) |->
        << result[1].success[ch][k].ctor, result[1].success[ch][k].token.content >>]

\* C7 as claimed: default is [WORD "a", WORD "c"], comment contains OPEN, ANY "b"
\* and CLOSE, fail is empty
ModeSwitchAsClaimed ==
    ModeSwitchReturned =>
        /\ Channel("default") = << <<4, <<"a">> >>, <<4, <<"c">> >> >>
        /\ \E i, j, k \in 1..Len(Channel("comment")) :
              /\ Channel("comment")[i][1] = 1
              /\ Channel("comment")[j] = <<3, <<"b">> >>
              /\ Channel("comment")[k][1] = 2
        /\ result[1].fail = <<>>

\* C7 as the code has it: default is [WORD "a", OPEN, CLOSE, WORD "c"], comment is
\* [ANY "b"], fail is empty
ModeSwitchScenario ==
    ModeSwitchReturned =>
        /\ DOMAIN result[1].success = {"default", "comment"}
        /\ Channel("default") =
              << <<4, <<"a">> >>, <<1, <<"/", "*">> >>, <<2, <<"*", "/">> >>, <<4, <<"c">> >> >>
        /\ Channel("comment") = << <<3, <<"b">> >> >>
        /\ result[1].fail = <<>>

ModeSwitchWitness == ModeSwitchReturned

(***************************************************************************)
(* C8  Termination: every iteration of exec's outer loop moves the cursor  *)
(* forward, so the loop body runs at most length(input) times.             *)
(***************************************************************************)
Termination == iters <= Len(str)

(***************************************************************************)
(* C9  Matcher contract error: when a predicate that exec tries at cursor  *)
(* position p answers a number <= p, exec throws and returns no result; no *)
(* terminal and no failure fragment is emitted.                            *)
(***************************************************************************)
\* the k-th meta is tried in this iteration: its mode is the top of the mode
\* stack and no meta before it with that mode answered a number or threw
Tried(k) ==
    /\ metas[k].params.mode = StackTop(modes)
    /\ \A j \in 1..(k - 1) :
          metas[j].params.mode = StackTop(modes) =>
              SpliterExec(metas[j].params.spliter, str, start).kind = "null"

ContractBreach ==
    /\ Looping
    /\ \E k \in 1..Len(metas) :
          /\ Tried(k)
          /\ metas[k].params.spliter.kind = "function"
          /\ userFn(metas[k].params.spliter, str, start).kind = "number"
          /\ userFn(metas[k].params.spliter, str, start).val <= start

\* C9: a step from a state in which a tried predicate answers a number <= start
\* throws, returns nothing and emits nothing
MatcherContractError ==
    [][ContractBreach =>
          /\ pc' = "thrown"
          /\ result' = <<>>
          /\ resultMap' = resultMap
          /\ failResults' = failResults
          /\ emitted' = emitted]_vars

MatcherContractErrorWitness ==
    /\ pc = "thrown"
    /\ result = <<>>
    /\ errorStart # <<>>

(***************************************************************************)
(* C10  Alternation lowering.  As claimed: a group lowers to an "or" rule  *)
(* exactly when one of its own items is | ; the rule then has one child    *)
(* per segment between the | items (their number plus one), in order, each *)
(* the lowering of its segment, and a segment without items lowers to      *)
(* "empty".  The grammar "a b | (a)+ | ((a | b)+)+ | b? | " with { a, b }  *)
(* lowers to                                                               *)
(* or[and[a, b], more[a], more[more[or[a, b]]], optional[b], empty].       *)
(* As the code has it: all of this, but a group with no | of its own also  *)
(* lowers to an "or" rule when it is a single parenthesised group that     *)
(* does, as "(a | b)" is: toAnd returns its only element as it is.         *)
(***************************************************************************)
\* the group and the groups nested in it
RECURSIVE GroupsIn(_)
GroupsIn(g) ==
    {g} \cup UNION {GroupsIn(g[k].v) : k \in {i \in 1..Len(g) : g[i].t = "grp"}}

Bars(g) == {k \in 1..Len(g) : g[k] = Str(<<"|">>)}

\* the items between the (i-1)-th and the i-th | of the group
Segment(g, i) ==
    LET before == IF i = 1 THEN 0
                  ELSE CHOOSE k \in Bars(g) : Cardinality({j \in Bars(g) : j < k}) = i - 2
        after  == IF i = Cardinality(Bars(g)) + 1 THEN Len(g) + 1
                  ELSE CHOOSE k \in Bars(g) : Cardinality({j \in Bars(g) : j < k}) = i - 1
    IN  SubSeq(g, before + 1, after - 1)

\* the rule has a child per segment of the group, each the lowering of its segment
ChildrenOf(g, r) ==
    /\ Len(r.children) = Cardinality(Bars(g)) + 1
    /\ \A i \in 1..Len(r.children) :
          /\ groupToRule(Segment(g, i)).ok
          /\ r.children[i] = groupToRule(Segment(g, i)).value
          /\ Segment(g, i) = <<>> => r.children[i] = EmptyRule

AlternationAsClaimed(g, r) ==
    /\ r.type = "or" <=> Bars(g) # {}
    /\ Bars(g) # {} => ChildrenOf(g, r)

AlternationOf(g, r) ==
    /\ Bars(g) # {} => r.type = "or" /\ ChildrenOf(g, r)
    /\ Bars(g) = {} =>
          (r.type = "or" <=>
              /\ Len(g) = 1
              /\ g[1].t = "grp"
              /\ groupToRule(g[1].v).value.type = "or")

ExampleRule ==
    [type |-> "or", children |-> <<
        [type |-> "and", children |-> << SubRule("a"), SubRule("b") >>],
        [type |-> "more", children |-> << SubRule("a") >>],
        [type |-> "more", children |-> <<
            [type |-> "more", children |-> <<
                [type |-> "or", children |-> << SubRule("a"), SubRule("b") >>] >>] >>],
        [type |-> "optional", children |-> << SubRule("b") >>],
        EmptyRule >>]

\* C10 as claimed: "or" exactly when the group has a | of its own
AlternationLoweringAsClaimed ==
    bpc = "done" =>
        /\ AlternationAsClaimed(group, rule)
        /\ \A g \in GroupsIn(group) : AlternationAsClaimed(g, groupToRule(g).value)
        /\ grammar = ExampleGrammar => rule = ExampleRule

\* C10 as the code has it: "or" when the group has a | of its own, or is a single
\* parenthesised group that lowers to "or"
AlternationLowering ==
    bpc = "done" =>
        /\ AlternationOf(group, rule)
        /\ \A g \in GroupsIn(group) : AlternationOf(g, groupToRule(g).value)
        /\ grammar = ExampleGrammar => rule = ExampleRule

AlternationLoweringWitness ==
    /\ bpc = "done"
    /\ grammar # ExampleGrammar
    /\ rule.type = "or"
    /\ Len(rule.children) >= 3
    /\ \E i, j \in 1..Len(rule.children) :
          rule.children[i] = EmptyRule /\ rule.children[j].type # "empty"

(***************************************************************************)
(* C11  Quantifier binding.  In every group without | that is lowered,     *)
(* each operator + , * or ? stands right after a reference or a            *)
(* parenthesised group; the lowering has one node per item that is not an  *)
(* operator, in their order, none for an operator; the node of a reference *)
(* or group followed by an operator is a "more", "repeat" or "optional"    *)
(* rule whose only child is the node that reference or group lowers to,    *)
(* that of any other is the node it lowers to.  The atoms a b + lower to   *)
(* and[a, more[b]].  Stated of both copies of the compiler and of both     *)
(* ways of giving the grammar.                                             *)
(***************************************************************************)
IsAtom(item) == item.t \in {"ref", "grp"}

\* each operator of the group stands right after a reference or a group
OperatorsBound(g) ==
    \A k \in 1..Len(g) : isOperator(g[k]) => k > 1 /\ IsAtom(g[k - 1])

OperandsOf(g) == {k \in 1..Len(g) : ~isOperator(g[k])}

\* the position of the j-th item of the group that is not an operator
OperandAt(g, j) ==
    CHOOSE k \in OperandsOf(g) : Cardinality({i \in OperandsOf(g) : i < k}) = j - 1

\* the groups the lowering of a group lowers: itself, then the segments between
\* its | items if it has any, the parenthesised groups among its items if not
RECURSIVE LoweredGroups(_)
LoweredGroups(g) ==
    {g} \cup
    IF Bars(g) # {}
    THEN UNION {LoweredGroups(Segment(g, i)) : i \in 1..(Cardinality(Bars(g)) + 1)}
    ELSE UNION {LoweredGroups(g[k].v) : k \in {i \in 1..Len(g) : g[i].t = "grp"}}

\* the rule a copy of the compiler lowers a group to
LoweringOf(f, g) == IF f = "parser.ts" THEN groupToRule(g).value ELSE groupToRule_000(g)

\* the list a copy of the compiler lowers the items of a group without | to
SequenceOf(f, g) == IF f = "parser.ts" THEN splitAndGroup(g).value ELSE splitAndGroup_000(g)

NodeOf(f, item) == IF item.t = "ref" THEN SubRule(item.v) ELSE LoweringOf(f, item.v)

\* the list is as C11 says for the group
BoundAsClaimed(f, g, list) ==
    /\ Len(list) = Cardinality(OperandsOf(g))
    /\ \A j \in 1..Len(list) :
          LET k == OperandAt(g, j) IN
          IsAtom(g[k]) =>
              IF k < Len(g) /\ isOperator(g[k + 1])
              THEN list[j] = [type |-> operatorTypeMap(g[k + 1]),
                              children |-> << NodeOf(f, g[k]) >>]
              ELSE list[j] = NodeOf(f, g[k])

\* the rule of the whole grammar holds the list, by itself when it is one node
HoldsList(r, list) ==
    \/ r = [type |-> "and", children |-> list]
    \/ Len(list) = 1 /\ r = list[1]

AtomsABPlus == << Ref("a"), Ref("b"), Str(<<"+">>) >>

QuantifierBinding ==
    bpc = "done" =>
        /\ \A g \in LoweredGroups(group) :
              Bars(g) = {} /\ g # <<>> =>
                  OperatorsBound(g) /\ BoundAsClaimed(file, g, SequenceOf(file, g))
        /\ Bars(group) = {} /\ group # <<>> => HoldsList(rule, SequenceOf(file, group))
        /\ bnfTokens = AtomsABPlus =>
              rule = [type |-> "and", children |->
                         << SubRule("a"), [type |-> "more", children |-> << SubRule("b") >>] >>]

(***************************************************************************)
(* C12  Single-element collapse.  As claimed: a group without | that is    *)
(* not empty and whose sequence has one element lowers to that element,    *)
(* the whole grammar's group as any other, and to an "and" rule of the     *)
(* sequence when it has two or more; so no "and" rule in the rule of a     *)
(* grammar has fewer than two children.                                    *)
(* toAnd of part_000 has no test of the length and wraps every sequence in *)
(* an "and" rule: "(a)" lowers to and[and[a]].  toAnd of parser.ts         *)
(* collapses every group, and bnfTokensToRule then wraps the rule of the   *)
(* whole grammar in an "and" rule of one child when it is a "sub" rule:    *)
(* "a" lowers to and[a].                                                   *)
(***************************************************************************)
\* the rule and the rules under it
RECURSIVE RulesIn(_)
RulesIn(r) ==
    {r} \cup
    IF r.type \in {"and", "or", "more", "repeat", "optional"}
    THEN UNION {RulesIn(r.children[k]) : k \in 1..Len(r.children)}
    ELSE {}

ShortAnds(r) == {n \in RulesIn(r) : n.type = "and" /\ Len(n.children) < 2}

\* the group lowers to the only element of its sequence, or to the "and" of it
Collapsed(f, g) ==
    LET list == SequenceOf(f, g) IN
    LoweringOf(f, g) = IF Len(list) = 1 THEN list[1]
                       ELSE [type |-> "and", children |-> list]

\* the groups without | that are lowered to a sequence
Sequences(g) == {h \in LoweredGroups(g) : Bars(h) = {} /\ h # <<>>}

\* C12 as claimed
SingleElementCollapseAsClaimed ==
    bpc = "done" =>
        /\ \A g \in Sequences(group) : Collapsed(file, g)
        /\ rule = LoweringOf(file, group)
        /\ ShortAnds(rule) = {}

\* the groups inside the whole grammar's group lower as claimed: so they do
\* in parser.ts, and in part_000 they do not
InnerGroupsCollapse ==
    bpc = "done" =>
        \A g \in Sequences(group) \ {group} : Collapsed(file, g)

\* what parser.ts gives: every group collapses, and the only "and" rule of
\* fewer than two children is the wrapper of bnfTokensToRule around a "sub" rule
CollapseInParser ==
    bpc = "done" /\ file = "parser.ts" =>
        /\ \A g \in Sequences(group) : Collapsed(file, g)
        /\ ShortAnds(rule) \subseteq {rule}
        /\ \A n \in ShortAnds(rule) : Len(n.children) = 1 /\ n.children[1].type = "sub"

(***************************************************************************)
(* C13  Grammar structural errors.  Whichever copy compiles and whichever  *)
(* way the grammar is given, no rule is produced when the atoms have a (   *)
(* that is never closed, a ) that closes nothing, an operator + , * or ?   *)
(* that is the first item of its group or of its segment between | items,  *)
(* or a string that is neither a reference, an operator, | , ( nor ) ; the *)
(* compilation ends in an error instead.  So it does for the atoms of      *)
(* "a (" and of "+ a".                                                     *)
(***************************************************************************)
\* the ( still open after the first k tokens, less the ) met
Depth(tokens, k) ==
    Cardinality({i \in 1..k : tokens[i] = Str(<<"(">>)})
        - Cardinality({i \in 1..k : tokens[i] = Str(<<")">>)})

Unclosed(tokens) == Depth(tokens, Len(tokens)) > 0 /\ \A k \in 1..Len(tokens) : Depth(tokens, k) >= 0

ExtraClose(tokens) == \E k \in 1..Len(tokens) : Depth(tokens, k) < 0

\* an operator at the start of the atoms, or right after ( or |
NoOperand(tokens) ==
    \E k \in 1..Len(tokens) :
        /\ isOperator(tokens[k])
        /\ k = 1 \/ tokens[k - 1] \in {Str(<<"(">>), Str(<<"|">>)}

Unresolved(tokens) ==
    \E k \in 1..Len(tokens) :
        /\ tokens[k].t = "str"
        /\ \E i \in 1..Len(tokens[k].v) : tokens[k].v[i] \notin Operators

Malformed(tokens) ==
    Unclosed(tokens) \/ ExtraClose(tokens) \/ NoOperand(tokens) \/ Unresolved(tokens)

AtomsAOpen == << Ref("a"), Str(<<"(">>) >>
AtomsPlusA == << Str(<<"+">>), Ref("a") >>

GrammarStructuralErrors ==
    /\ bpc = "done" => ~Malformed(bnfTokens) /\ bnfTokens \notin {AtomsAOpen, AtomsPlusA}
    /\ bpc = "error" => rule = <<>>

(***************************************************************************)
(* C14  Failure coalescing.  A failure fragment is never empty; what exec  *)
(* emits right after one, and right before one, is a terminal, never       *)
(* another fragment; and at no index inside a fragment does the spliter of *)
(* a terminal whose mode is the top of the mode stack, as it was while the *)
(* fragment was gathered, answer a number.  The fragments exec returns are *)
(* the ones it emitted.                                                    *)
(***************************************************************************)
FailEntries == {k \in 1..Len(emitted) : emitted[k].kind = "fail"}

\* no spliter of a terminal of the mode matches at the index
Unmatched(index, top) ==
    \A k \in 1..Len(metas) :
        gate(metas[k], top) => SpliterExec(metas[k].params.spliter, str, index).kind # "number"

FailureCoalescing ==
    /\ \A k \in FailEntries :
          LET e == emitted[k] IN
          /\ e.token.content # <<>>
          /\ e.token.end.index > e.token.start.index
          /\ k < Len(emitted) => emitted[k + 1].kind = "success"
          /\ k > 1 => emitted[k - 1].kind = "success"
          /\ \A index \in e.at .. (e.at + Len(e.token.content) - 1) : Unmatched(index, e.top)
    /\ pc = "done" =>
          /\ Len(result[1].fail) = Cardinality(FailEntries)
          /\ \A j \in 1..Len(result[1].fail) :
                /\ result[1].fail[j].content # <<>>
                /\ \E k \in FailEntries : emitted[k].token = result[1].fail[j]

\* exec has returned a fragment of two characters or more that it emitted
\* before a terminal, with a terminal declared for the mode the fragment was in
FailureCoalescingWitness ==
    /\ pc = "done"
    /\ \E k \in FailEntries :
          /\ Len(emitted[k].token.content) >= 2
          /\ k < Len(emitted)
          /\ \E m \in 1..Len(metas) : gate(metas[m], emitted[k].top)
          /\ \E j \in 1..Len(result[1].fail) : result[1].fail[j] = emitted[k].token

(***************************************************************************)
(* C15  Mode-stack effects.  An iteration in which a terminal matches      *)
(* changes the mode stack by pushing the terminal's pushMode if it         *)
(* declares one, then popping once if it declares popMode, and in no other *)
(* way: the stack is as before when the terminal declares both or neither, *)
(* and stays empty, with no error, when it declares popMode alone and the  *)
(* stack is empty.  An iteration in which no terminal matches leaves the   *)
(* mode stack and every channel's terminals as they are and moves the      *)
(* cursor one character on.                                                *)
(***************************************************************************)
\* the modes on the stack, the oldest first
Live(stack) == SubSeq(stack.chain, 1, stack.leng)

\* the stack after the effects C15 gives a terminal of these parameters
EffectsOf(params, stack) ==
    LET pushed == IF params.pushMode # Undefined THEN Append(stack, params.pushMode)
                  ELSE stack
    IN  IF params.popMode /\ pushed # <<>> THEN SubSeq(pushed, 1, Len(pushed) - 1)
        ELSE pushed

MatchStep == iters' = iters + 1 /\ Len(emitted') > Len(emitted)

NoMatchStep ==
    /\ Looping
    /\ iters' = iters + 1
    /\ \A k \in 1..Len(metas) :
          gate(metas[k], StackTop(modes)) =>
              SpliterExec(metas[k].params.spliter, str, start).kind = "null"

ModeStackStep ==
    /\ MatchStep =>
          LET params == Declared(emitted'[Len(emitted')].ctor) IN
          /\ Live(modes') = EffectsOf(params, Live(modes))
          /\ (params.pushMode # Undefined) = params.popMode => Live(modes') = Live(modes)
          /\ params.pushMode = Undefined /\ params.popMode /\ Live(modes) = <<>> =>
                Live(modes') = <<>> /\ pc' = "run"
    /\ NoMatchStep =>
          /\ Live(modes') = Live(modes)
          /\ resultMap' = resultMap
          /\ start' = start + 1
          /\ pc' = "run"

ModeStackEffects == [][ModeStackStep]_vars

(***************************************************************************)
(* C16  exec keeps no state between calls.  A call of exec on a Lexer that *)
(* has been used, whether the earlier calls returned (with modes still on  *)
(* their stack or not) or threw, begins with an empty mode stack, the      *)
(* position (0, 1, 1), every channel and the failures empty, and the       *)
(* cursor at 0; in each of its iterations a regular expression is matched  *)
(* at the cursor, wherever its earlier matches left its lastIndex; and it  *)
(* ends as the call of exec on a new Lexer of the same terminals ends,     *)
(* with the same result if that returns and by throwing if that throws.    *)
(***************************************************************************)
\* the locals of exec on a new Lexer before the loop
FreshLocals(ms) ==
    [modes |-> NewStack, resultMap |-> generateResultMap(ms), failResults |-> NewStack,
     counter |-> InitialPosition, errorStart |-> <<>>, start |-> 0]

\* how exec ends from the locals l when it ends within a number of iterations
RECURSIVE RunFrom(_, _, _, _)
RunFrom(ms, s, l, fuel) ==
    LET top == StackTop(l.modes)
        flush == collectFailResult(l.errorStart, l.start, s, l.counter, l.failResults, top)
        o == Try(ms, 1, s, l.start, top)
    IN  IF l.start >= Len(s)
        THEN [kind |-> "returned",
              result |-> << [success |-> getResult(l.resultMap),
                             fail    |-> StackToArray(flush.failResults)] >>]
        ELSE IF fuel = 0 \/ o.kind = "throw"
             THEN [kind |-> IF fuel = 0 THEN "running" ELSE "threw", result |-> <<>>]
        ELSE IF o.kind = "none"
             THEN RunFrom(ms, s,
                          [l EXCEPT !.errorStart = IF @ = <<>> THEN << l.start >> ELSE @,
                                    !.start = @ + 1],
                          fuel - 1)
        ELSE LET meta == ms[o.k]
                 content == slice(s, l.start, o.end)
                 positions == getPosition(flush.counter, content)
                 terminal == [ctor  |-> meta.ctor,
                              token |-> [content |-> content, start |-> positions.start,
                                         end |-> positions.end]]
             IN  RunFrom(ms, s,
                         [modes       |-> switchMode(meta, l.modes),
                          resultMap   |-> [l.resultMap EXCEPT
                                              ![meta.params.channel] = StackPush(@, terminal)],
                          failResults |-> flush.failResults,
                          counter     |-> positions.end,
                          errorStart  |-> <<>>,
                          start       |-> o.end],
                         fuel - 1)

\* exec(s) on a new Lexer of the same terminals
FreshExec == RunFrom(metas, str, FreshLocals(metas), iters)

SameAsFresh ==
    /\ pc = "done" => FreshExec.kind = "returned" /\ FreshExec.result = result
    /\ pc = "thrown" => FreshExec.kind = "threw"

\* a call on a Lexer that has been used begins as one on a new Lexer
BeginsAnew ==
    pc \in {"done", "thrown"} /\ pc' = "run" =>
        /\ Live(modes') = <<>>
        /\ counter' = InitialPosition
        /\ \A channel \in DOMAIN resultMap' : StackToArray(resultMap'[channel]) = <<>>
        /\ DOMAIN resultMap' = {metas[k].params.channel : k \in 1..Len(metas)}
        /\ StackToArray(failResults') = <<>>
        /\ errorStart' = <<>>
        /\ start' = 0

\* the text a regular expression matches at the cursor, <<>> if none
AtCursor(k) ==
    LET m == MatchAt(metas[k].params.spliter, str, start) IN
    IF m = <<>> THEN <<>> ELSE m[1]

RegExps == {k \in 1..Len(metas) : metas[k].params.spliter.kind = "regexp"}

\* an iteration takes the match of a regular expression at the cursor, and takes
\* none only if the expressions of the mode match nothing there
MatchesAtCursor ==
    /\ MatchStep =>
          \A k \in RegExps :
              emitted'[Len(emitted')].ctor = metas[k].ctor =>
                  /\ AtCursor(k) # <<>>
                  /\ start' = start + Len(AtCursor(k))
    /\ NoMatchStep => \A k \in RegExps : gate(metas[k], StackTop(modes)) => AtCursor(k) = <<>>
    /\ Looping /\ iters' = iters + 1 /\ pc' = "run" /\ emitted' = emitted =>
          \A k \in RegExps : gate(metas[k], StackTop(modes)) => AtCursor(k) = <<>>

NoStateBetweenCalls == [](SameAsFresh) /\ [][BeginsAnew /\ MatchesAtCursor]_vars

\* a call has returned a terminal matched by a regular expression past the start
\* of its input, after a call that returned with a mode on its stack, and an
\* expression is left with a lastIndex other than 0
NoStateBetweenCallsWitness ==
    /\ pc = "done"
    /\ earlier = {"done", "modes"}
    /\ \E k \in RegExps : lastIndex[k] # 0
    /\ \E k \in RegExps, e \in SuccessEntries :
          emitted[e].ctor = metas[k].ctor /\ emitted[e].at > 0

(***************************************************************************)
(* C17  Absolute positions.  The start and the end of every token exec     *)
(* emits are the position reached from (0, 1, 1) by going over all of the  *)
(* input before them at once, \r\n being one line terminator, wherever the *)
(* earlier tokens begin and end, between a \r and its \n too.              *)
(***************************************************************************)
\* the position after a text that begins at (0, 1, 1)
Advance(text) ==
    [index |-> Len(text),
     row   |-> 1 + Terminators(text),
     col   |-> IF Terminators(text) > 0 THEN 1 + AfterLastTerminator(text)
               ELSE 1 + Len(text)]

EndIndex(e) == e.at + Len(e.token.content)

AbsolutePositions ==
    \A k \in 1..Len(emitted) :
        /\ emitted[k].token.start = Advance(slice(str, 0, emitted[k].at))
        /\ emitted[k].token.end = Advance(slice(str, 0, EndIndex(emitted[k])))

\* What the code gives instead: getPosition counts the line terminators of each
\* token's content by itself, so index and col are as in C17, and row is as in
\* C17 plus the number of \r\n before the position inside which a token begins.
DividedPairs(i) ==
    {p \in {emitted[k].at : k \in 1..Len(emitted)} :
        p > 0 /\ p < i /\ str[p] = CR /\ str[p + 1] = LF}

PositionOf(i) ==
    LET at == Advance(slice(str, 0, i)) IN
    [at EXCEPT !.row = @ + Cardinality(DividedPairs(i))]

CountedPerToken ==
    \A k \in 1..Len(emitted) :
        /\ emitted[k].token.start = PositionOf(emitted[k].at)
        /\ emitted[k].token.end = PositionOf(EndIndex(emitted[k]))

(***************************************************************************)
(* C18  Stack behaves as a sequence.  After any pushes and pops on a Stack *)
(* made from any array: length is the number of values pushed and not      *)
(* popped; toArray() is those values, the oldest first, an array of length *)
(* entries; top is the last of them, undefined when there is none;         *)
(* reverse() yields them, the last first; and pop on an empty Stack        *)
(* returns undefined and changes nothing.                                  *)
(***************************************************************************)
Reversed(list) == [k \in 1..Len(list) |-> list[Len(list) + 1 - k]]

AsSequence ==
    /\ StackLength(aStack) = Len(seq)
    /\ StackToArray(aStack) = seq
    /\ Len(StackToArray(aStack)) = StackLength(aStack)
    /\ StackTop(aStack) = IF seq = <<>> THEN Undefined ELSE seq[Len(seq)]
    /\ StackReverse(aStack) = Reversed(seq)

PopOnEmpty ==
    seq = <<>> /\ seq' = <<>> =>
        /\ StackLength(aStack') = StackLength(aStack)
        /\ popped' = Undefined
        /\ StackToArray(aStack') = StackToArray(aStack)
        /\ StackTop(aStack') = StackTop(aStack)

StackIsSequence == [](AsSequence) /\ [][PopOnEmpty]_vars

\* What the code gives instead: all of C18 but for toArray(), whose first length
\* entries are the values and which runs on over the values popped since the
\* last push.
AsSequenceButToArray ==
    /\ StackLength(aStack) = Len(seq)
    /\ Len(StackToArray(aStack)) >= StackLength(aStack)
    /\ SubSeq(StackToArray(aStack), 1, StackLength(aStack)) = seq
    /\ StackTop(aStack) = IF seq = <<>> THEN Undefined ELSE seq[Len(seq)]
    /\ StackReverse(aStack) = Reversed(seq)

PopOnEmptyOnly == [][PopOnEmpty]_vars

====
